---- MODULE Spec2Model ----
(***************************************************************************)
(* A model of the tool-invocation bridge, the three agent drivers and the  *)
(* two registry builders of taming_mcps.                                   *)
(*                                                                         *)
(*   SpecBridge  mcp_bridge.call_mcp_tool applied to one request           *)
(*   SpecAgent   the conversation loop of traditional_mode, discovery_mode *)
(*               and code_mode                                             *)
(*   SpecBuild   build_registry.build_code_registry and                    *)
(*               get_tools.build_registry                                  *)
(*                                                                         *)
(* Text is a sequence of one-character strings; the external protocols     *)
(* (chat endpoint, tool servers) are the environment: what they answer is  *)
(* chosen nondeterministically among the shapes the client code inspects.  *)
(***************************************************************************)
EXTENDS Integers, Sequences, FiniteSets, TLC

VARIABLES
    \* ---- mcp_bridge ----
    ACTIVE_SESSIONS,  \* mcp_bridge.ACTIVE_SESSIONS: server name -> session handle
    bpc,              \* "idle" | "call" | "returned": position of the bridge call under test
    request,          \* the (server_name, tool_name, args) of the call under test
    reply,            \* what session.call_tool answers to the forwarded call
    ret,              \* the outcome of call_mcp_tool: returned value or raised error
    forwarded,        \* the calls that reached a session, in order
    \* ---- agent drivers ----
    mode,             \* "traditional" | "discovery" | "code" | "none"
    pc,               \* "startup" | "request" | "dispatch" | "done" | "raised" | "off"
    sessions,         \* the driver's connected sessions (server names)
    turn,             \* the loop variable of `for turn in range(N)`
    chatRequests,     \* number of chat.completions.create calls issued
    turnDispatches,   \* number of tool dispatches performed in the current iteration
    multiCallTurns,   \* number of iterations so far whose message held several tool calls
    lastMsg,          \* the assistant message of the current iteration
    pending,          \* tool calls of lastMsg not executed yet
    turnMessages,     \* the messages appended to `messages` in the current iteration
    nMessages,        \* len(messages)
    finalAnswer,      \* what the driver printed as the agent's answer (NoAnswer if nothing)
    raised,           \* origin of the exception that left the loop ("none" if none)
    startup,          \* per configured server: how its connection went at startup
    live,             \* servers whose subprocess and pipes are held by the run
    persistent_globals, \* code_mode: the names in persistent_globals
    persistent_locals,  \* code_mode: the names in persistent_locals
    turn_count,         \* traditional, code: turn_count
    total_input_tokens, \* traditional, code: total_input_tokens
    total_output_tokens, \* traditional, code: total_output_tokens
    report,             \* the token usage summary printed after the loop
    \* ---- registry builders ----
    builder,          \* "code" (build_registry.py) | "json" (get_tools.py) | "none"
    bphase,           \* "start" | "servers" | "finished" | "raised" | "off"
    hostCmds,         \* launch commands present on the host
    cur,              \* build_code_registry: index of the server being processed
    status,           \* per configured server: how far its processing got
    rootExists,       \* REGISTRY_ROOT exists
    dirs,             \* server directories under REGISTRY_ROOT
    files,            \* per server directory: its files, name -> content
    dbExists,         \* DB_FILE exists
    served,           \* per server: how it behaved when a builder last talked to it
    builds,           \* number of builds completed
    firstBuild,       \* the registry as the first completed build left it
    \* ---- wrapper generator ----
    wpc,              \* "generate" | "import" | "called" | "off"
    wcap,             \* the capability handed to generate_python_wrapper, and the kwargs
    wfile,            \* the text of the generated wrapper file, line by line
    bridge_file,      \* the text build_code_registry writes to mcp_bridge.py, line by line
    gen_ret,          \* what the written bridge's call_mcp_tool gave back
    \* ---- offered tool names ----
    npc,              \* "start" | "offered" | "requested" | "dispatched" | "off"
    nmode,            \* "traditional" | "discovery"
    listed,           \* per configured server: the tool names it lists, in order
    offered,          \* the capabilities offered to the model, in order
    wanted,           \* the position in offered of the capability the model asks for
    dispatched        \* the server and tool name the call was sent to

bridgeVars == <<ACTIVE_SESSIONS, bpc, request, reply, ret, forwarded>>
agentVars == <<mode, pc, sessions, turn, chatRequests, turnDispatches, multiCallTurns,
               lastMsg, pending,
               turnMessages, nMessages, finalAnswer, raised, startup, live,
               persistent_globals, persistent_locals, turn_count, total_input_tokens,
               total_output_tokens, report>>
buildVars == <<builder, bphase, hostCmds, cur, status, rootExists, dirs, files, dbExists,
               served, builds, firstBuild>>
wrapperVars == <<wpc, wcap, wfile, bridge_file, gen_ret>>
nameVars == <<npc, nmode, listed, offered, wanted, dispatched>>
vars == <<bridgeVars, agentVars, buildVars, wrapperVars, nameVars>>

(***************************************************************************)
(* Bounds of the model.                                                    *)
(***************************************************************************)
\* longest text of a tool response
MaxTextLen == 3
\* most tool calls in one assistant message
MaxCalls == 2
\* most iterations of one run whose assistant message holds more than one tool call
MaxMultiCallTurns == 1
\* most servers that fail to connect at an agent's startup
MaxFailedServers == 1
\* most tools a server lists during a registry build
MaxListed == 2
\* most builds of the registry in succession
MaxBuilds == 2
\* most servers that are irregular in the builds run in succession: their files fail to
\* be written, or they list a repeated name or the name of an index file
MaxIrregular == 1
\* most calls the snippets of one code-mode run forward to the sessions
MaxForwarded == 1
\* most servers that are launched and fail, in the builds run in succession
MaxFailing == 1

(***************************************************************************)
(* Text: Python str as a sequence of characters.                           *)
(***************************************************************************)
Chars == {" ", "{", "}", "[", "]", "1", ","}

RECURSIVE TextsOfLen(_)
TextsOfLen(n) ==
    IF n = 0 THEN {<<>>}
    ELSE {Append(t, c) : t \in TextsOfLen(n - 1), c \in Chars}

Texts == UNION {TextsOfLen(n) : n \in 0..MaxTextLen}

\* str.isspace of one character
IsSpace(c) == c = " "

RECURSIVE lstrip(_)
lstrip(t) == IF t # <<>> /\ IsSpace(Head(t)) THEN lstrip(Tail(t)) ELSE t

RECURSIVE rstrip(_)
rstrip(t) ==
    IF t # <<>> /\ IsSpace(t[Len(t)]) THEN rstrip(SubSeq(t, 1, Len(t) - 1)) ELSE t

\* str.strip()
strip(t) == rstrip(lstrip(t))

\* str.startswith(prefixes) for one-character prefixes
startswith(t, prefixes) == t # <<>> /\ Head(t) \in prefixes

(***************************************************************************)
(* json.loads on Texts.  The alphabet has no quote, so the only object is  *)
(* the empty one; arrays nest and hold numbers written with the digit 1.   *)
(* A parse result is [ok, val, next]: next is the index after the value.   *)
(***************************************************************************)
JInt(n) == [t |-> "int", v |-> n]
JList(xs) == [t |-> "list", v |-> xs]
JDict == [t |-> "dict", v |-> <<>>]

ParseFail == [ok |-> FALSE, val |-> JDict, next |-> 0]
ParseOk(v, n) == [ok |-> TRUE, val |-> v, next |-> n]

\* json.decoder.WHITESPACE.match(s, i).end()
RECURSIVE SkipWs(_, _)
SkipWs(t, i) == IF i <= Len(t) /\ IsSpace(t[i]) THEN SkipWs(t, i + 1) ELSE i

\* the end of the run of digits that starts at i
RECURSIVE ScanDigits(_, _)
ScanDigits(t, i) == IF i <= Len(t) /\ t[i] = "1" THEN ScanDigits(t, i + 1) ELSE i

\* int("1" * n)
RECURSIVE Ones(_)
Ones(n) == IF n = 0 THEN 0 ELSE 10 * Ones(n - 1) + 1

\* json.decoder.JSONObject from the index after "{"
JSONObject(t, i) ==
    LET j == SkipWs(t, i)
    IN  IF j <= Len(t) /\ t[j] = "}" THEN ParseOk(JDict, j + 1) ELSE ParseFail

RECURSIVE scan_once(_, _)
RECURSIVE ArrayElements(_, _, _)

\* json.decoder.JSONArray from the index after "["
JSONArray(t, i) ==
    LET j == SkipWs(t, i)
    IN  IF j <= Len(t) /\ t[j] = "]" THEN ParseOk(JList(<<>>), j + 1)
        ELSE ArrayElements(t, j, <<>>)

\* the `while True` loop of JSONArray: a value, then "]" or "," and the next value
ArrayElements(t, i, acc) ==
    LET r == scan_once(t, i)
    IN  IF ~r.ok THEN ParseFail
        ELSE LET k == SkipWs(t, r.next)
             IN  IF k > Len(t) THEN ParseFail
                 ELSE IF t[k] = "]" THEN ParseOk(JList(Append(acc, r.val)), k + 1)
                 ELSE IF t[k] = "," THEN ArrayElements(t, SkipWs(t, k + 1), Append(acc, r.val))
                 ELSE ParseFail

\* json.scanner.scan_once
scan_once(t, i) ==
    IF i > Len(t) THEN ParseFail
    ELSE IF t[i] = "[" THEN JSONArray(t, i + 1)
    ELSE IF t[i] = "{" THEN JSONObject(t, i + 1)
    ELSE IF t[i] = "1" THEN ParseOk(JInt(Ones(ScanDigits(t, i) - i)), ScanDigits(t, i))
    ELSE ParseFail

\* json.loads(text): ok = FALSE stands for the ValueError it raises
json_loads(t) ==
    LET r == scan_once(t, SkipWs(t, 1))
    IN  IF r.ok /\ SkipWs(t, r.next) = Len(t) + 1 THEN r ELSE ParseFail

(***************************************************************************)
(* mcp_bridge.call_mcp_tool                                                *)
(***************************************************************************)
\* the servers of the configurations
ServerNames == {"time", "sqlite", "git", "github", "filesystem"}

\* tool names are sequences of name pieces
ToolNames == {<<"echo">>, <<"get", "_", "time">>}

\* argument mappings, as sets of <<key, value>>
ArgMaps == {{}, {<<"text", "hi">>}}

\* the handle of the session connected to server s
Session(s) == <<"session", s>>

TextItem(t) == [type |-> "text", text |-> t]
ImageItem == [type |-> "image", text |-> <<>>]

\* what session.call_tool does: raise, or answer a CallToolResult with the content
RaiseReply == [raises |-> TRUE, content |-> <<>>]
ContentReply(c) == [raises |-> FALSE, content |-> c]

Replies ==
    {RaiseReply, ContentReply(<<>>), ContentReply(<<ImageItem>>)}
        \cup {ContentReply(<<TextItem(t)>>) : t \in Texts}

\* outcomes of a call: a returned value of some kind, or a raised error
Return(k, v, calls) == [out |-> "return", kind |-> k, val |-> v, calls |-> calls]
Raise(e, calls) == [out |-> "raise", kind |-> e, val |-> <<>>, calls |-> calls]

\* f"Error: Server '{server_name}' is not connected."
NotConnectedMessage(server_name) == <<"Error: Server '", server_name, "' is not connected.">>

\* lines 15-25 with startswith applied to the text as it came, not to text.strip()
ExtractContent_unstripped(rep, calls) ==
    IF Len(rep.content) > 0
    THEN IF rep.content[1].type # "text" THEN Raise("AttributeError", calls)
         ELSE LET text == rep.content[1].text
              IN  IF startswith(text, {"{", "["}) /\ json_loads(text).ok
                  THEN Return("json", json_loads(text).val, calls)
                  ELSE Return("str", text, calls)
    ELSE Return("content", rep.content, calls)

\* lines 15-25: "Extract clean content from MCP response"
ExtractContent(rep, calls) ==
    IF Len(rep.content) > 0
    THEN \* text = result.content[0].text: an item without text raises AttributeError
         IF rep.content[1].type # "text" THEN Raise("AttributeError", calls)
         ELSE LET text == rep.content[1].text
              IN  \* try: if text.strip().startswith(('{', '[')): return json.loads(text)
                  \* except: pass
                  IF startswith(strip(text), {"{", "["}) /\ json_loads(text).ok
                  THEN Return("json", json_loads(text).val, calls)
                  ELSE Return("str", text, calls)
    ELSE Return("content", rep.content, calls)

\* call_mcp_tool without the test of line 9: ACTIVE_SESSIONS[server_name] raises KeyError
call_mcp_tool_unchecked(S, server_name, tool_name, args, rep) ==
    IF server_name \notin DOMAIN S THEN Raise("KeyError", <<>>)
    ELSE LET call == [session |-> S[server_name], tool |-> tool_name, arguments |-> args]
         IN  IF rep.raises THEN Raise("call_tool", <<call>>)
             ELSE ExtractContent(rep, <<call>>)

call_mcp_tool(S, server_name, tool_name, args, rep) ==
    IF server_name \notin DOMAIN S
    THEN Return("str", NotConnectedMessage(server_name), <<>>)
    ELSE LET call == [session |-> S[server_name], tool |-> tool_name, arguments |-> args]
         IN  \* result = await session.call_tool(tool_name, arguments=args)
             IF rep.raises THEN Raise("call_tool", <<call>>)
             ELSE ExtractContent(rep, <<call>>)

\* the session tables a code-mode startup can leave: code_mode connects time and git
BridgeServers == {"time", "git"}
SessionTables == {[s \in D |-> Session(s)] : D \in SUBSET BridgeServers}

NoRequest == [server |-> "none", tool |-> <<>>, args |-> {}]
NoRet == Return("none", <<>>, <<>>)

BridgeOff ==
    /\ ACTIVE_SESSIONS = [s \in {} |-> Session(s)]
    /\ bpc = "idle"
    /\ request = NoRequest
    /\ reply = RaiseReply
    /\ ret = NoRet
    /\ forwarded = <<>>

BridgeInit ==
    /\ ACTIVE_SESSIONS \in SessionTables
    /\ bpc = "call"
    /\ request \in [server : BridgeServers \cup {"sqlite"}, tool : ToolNames, args : ArgMaps]
    /\ reply \in Replies
    /\ ret = NoRet
    /\ forwarded = <<>>

\* one call of call_mcp_tool(request), the session answering with reply
CallMcpTool ==
    /\ bpc = "call"
    /\ LET r == call_mcp_tool(ACTIVE_SESSIONS, request.server, request.tool, request.args, reply)
       IN  /\ ret' = r
           /\ forwarded' = forwarded \o r.calls
    /\ bpc' = "returned"
    /\ UNCHANGED <<ACTIVE_SESSIONS, request, reply>>


(***************************************************************************)
(* The agent drivers: traditional_mode.run_traditional_agent,              *)
(* discovery_mode.main and code_mode.run_agent_executor.                   *)
(***************************************************************************)
Modes == {"traditional", "discovery", "code"}

\* the turn budgets: `for turn in range(N)`
TraditionalTurns == 15
DiscoveryTurns == 3
CodeTurns == 8
\* code_mode: `turn == 7`
LastCodeTurn == 7

MaxTurns(m) ==
    IF m = "traditional" THEN TraditionalTurns
    ELSE IF m = "discovery" THEN DiscoveryTurns
    ELSE CodeTurns

\* the `servers` list of each driver's startup, in order
ServersOf(m) ==
    IF m = "traditional" THEN <<"time", "sqlite", "git", "github", "filesystem">>
    ELSE IF m = "discovery" THEN <<"time">>
    ELSE <<"time", "git">>

ConfiguredServers(m) == {ServersOf(m)[k] : k \in 1..Len(ServersOf(m))}

\* the tools a server lists (tools_response.tools), in order
Catalog(s) ==
    IF s = "time" THEN <<<<"echo">>, <<"get", "_", "time">>>> ELSE <<<<"echo">>>>

\* traditional_mode: f"{name}_{tool_def['name']}"
TraditionalName(server, tool_name) == <<server, "_">> \o tool_name

\* discovery_mode: f"mcp_time_{tool.name}"
McpTimePrefix == <<"mcp", "_", "time", "_">>
DiscoveryName(tool_name) == McpTimePrefix \o tool_name

\* whether p occurs in t at index i
OccursAt(t, p, i) == i + Len(p) - 1 <= Len(t) /\ SubSeq(t, i, i + Len(p) - 1) = p

\* str.replace(p, ""): every occurrence of p removed, scanning left to right
RECURSIVE RemoveAll(_, _)
RemoveAll(t, p) ==
    IF t = <<>> THEN <<>>
    ELSE IF OccursAt(t, p, 1) THEN RemoveAll(SubSeq(t, Len(p) + 1, Len(t)), p)
    ELSE <<Head(t)>> \o RemoveAll(Tail(t), p)

\* traditional_mode.start_mcp_servers: all_tools for the connected servers
RECURSIVE all_tools_from(_, _, _)
all_tools_from(servers, i, connected) ==
    IF i > Len(servers) THEN <<>>
    ELSE (IF servers[i] \in connected
          THEN [k \in 1..Len(Catalog(servers[i])) |->
                   [server |-> servers[i], tool_name |-> Catalog(servers[i])[k]]]
          ELSE <<>>)
         \o all_tools_from(servers, i + 1, connected)

all_tools(connected) == all_tools_from(ServersOf("traditional"), 1, connected)

\* the loop of lines 141-144: the first entry whose offered name is function_name (0: none)
FindTool(tools, function_name) ==
    LET hits == {k \in 1..Len(tools) :
                    TraditionalName(tools[k].server, tools[k].tool_name) = function_name}
    IN  IF hits = {} THEN 0 ELSE CHOOSE k \in hits : \A j \in hits : k <= j

\* ---- what the chat endpoint may answer ----------------------------------
\* msg.content: None, or a string as a sequence of pieces
NoneContent == [isNone |-> TRUE, text |-> <<>>]
Str(t) == [isNone |-> FALSE, text |-> t]
Contents == {NoneContent, Str(<<>>), Str(<<"hi">>), Str(<<"<Answer>", "hi">>)}

\* bool(msg.content)
Truthy(c) == ~c.isNone /\ c.text # <<>>
\* "<Answer>" in msg.content
HasAnswerTag(c) == \E i \in 1..Len(c.text) : c.text[i] = "<Answer>"

\* a run_python snippet, by what running it does
\* ("bind": it imports or assigns `name`; "use": it prints `name`; with hasAwait the
\* snippet also holds an await expression that completes)
NoSnippet == [hasAwait |-> FALSE, does |-> "nothing", server |-> "none", name |-> "none"]
Snippets ==
    {[hasAwait |-> FALSE, does |-> d, server |-> "none", name |-> "none"] :
        d \in {"print", "nothing", "raise", "exit"}}
    \cup {[hasAwait |-> TRUE, does |-> "call", server |-> sv, name |-> "none"] :
             sv \in {"time", "sqlite"}}
    \cup {[hasAwait |-> a, does |-> d, server |-> "none", name |-> "x"] :
             a \in BOOLEAN, d \in {"bind", "use"}}

\* tool_call.function.arguments: a text json.loads decodes to a mapping with these keys,
\* or a text it cannot decode
Undecodable == [decodes |-> FALSE, keys |-> {}, code |-> NoSnippet]
TextArgs == [decodes |-> TRUE, keys |-> {"text"}, code |-> NoSnippet]
CodeArgs(sn) == [decodes |-> TRUE, keys |-> {"code"}, code |-> sn]

RunPython == <<"run", "_", "python">>
UnknownName == <<"nope">>

\* the tool calls the endpoint may request in a mode (their ids come with the position)
ToolCallChoices(m) ==
    IF m = "traditional"
    THEN [name : {TraditionalName("time", <<"echo">>), UnknownName},
          arguments : {TextArgs, Undecodable}]
    ELSE IF m = "discovery"
    THEN [name : {DiscoveryName(<<"echo">>), UnknownName},
          arguments : {TextArgs, Undecodable}]
    ELSE [name : {RunPython},
          arguments : {Undecodable, TextArgs} \cup {CodeArgs(sn) : sn \in Snippets}]

\* msg.tool_calls with n calls: ids 1..n
ToolCallLists(m) ==
    UNION {[1..n -> ToolCallChoices(m)] : n \in 1..MaxCalls}

WithIds(calls) ==
    [k \in 1..Len(calls) |->
        [id |-> k, name |-> calls[k].name, arguments |-> calls[k].arguments]]

\* the replies of a tool server to a dispatched call
AgentReplies ==
    {RaiseReply, ContentReply(<<>>), ContentReply(<<TextItem(<<"h", "i">>)>>)}

\* ---- messages ------------------------------------------------------------
AssistantMessage(m) == [role |-> "assistant", tool_call_id |-> 0, content |-> m.content.text]
ToolMessage(id, content) == [role |-> "tool", tool_call_id |-> id, content |-> content]

\* str(x) of a value that is not text
StrOf(what) == <<"str(", what, ")">>

\* ---- code_mode.execute_code ------------------------------------------------
\* the class of the error a snippet raises: sys.exit(), KeyboardInterrupt and
\* asyncio.CancelledError derive from BaseException only
ErrorClass(sn) == IF sn.does = "exit" THEN "BaseException" ELSE "Exception"

\* `except Exception as e` (code_mode.py line 57)
ExceptException(class) == class = "Exception"

\* the names the snippet's code can read: exec(code, globals, locals) looks a name up in
\* locals, then globals; the body of the `async def _run()` that wraps a snippet with
\* 'await' looks it up in the function's own names, then in globals_dict
Visible(sn, g, l) == IF sn.hasAwait THEN g ELSE g \cup l

\* line 24: globals_dict["__builtins__"] = __builtins__
WithBuiltins(g) == g \cup {"__builtins__"}

\* whether the snippet runs to its end without raising
RunsClean(sn, S, rep, g, l) ==
    IF sn.does \in {"raise", "exit"} THEN FALSE
    ELSE IF sn.does = "call"
    THEN call_mcp_tool(S, sn.server, <<"echo">>, {<<"text", "hi">>}, rep).out = "return"
    ELSE IF sn.does = "use" THEN sn.name \in Visible(sn, WithBuiltins(g), l)
    ELSE TRUE

\* the names exec leaves in locals_dict: what the snippet binds at top level (sync path),
\* or _run and __result (await path: what the snippet binds is local to _run)
LocalsAfter(sn, l) ==
    IF sn.hasAwait THEN l \cup {"_run", "__result"}
    ELSE IF sn.does = "bind" THEN l \cup {sn.name}
    ELSE l

\* persistent_globals and persistent_locals after execute_code: line 52,
\* globals_dict.update(locals_dict), is reached only when nothing was raised
NamesAfter(sn, S, rep, g, l) ==
    IF RunsClean(sn, S, rep, g, l)
    THEN [globals |-> WithBuiltins(g) \cup LocalsAfter(sn, l), locals |-> LocalsAfter(sn, l)]
    ELSE [globals |-> WithBuiltins(g), locals |-> LocalsAfter(sn, l)]

\* execute_code(code, globals, locals): the returned string, or the error that escapes.
\* A "call" snippet awaits a generated wrapper, i.e. call_mcp_tool(server, "echo", args),
\* and prints what it returns.
execute_code(sn, S, rep, g, l) ==
    IF sn.does = "print" THEN Return("str", <<"out">>, <<>>)
    ELSE IF sn.does \in {"nothing", "bind"}
    THEN Return("str", <<"Code executed successfully (no output).">>, <<>>)
    ELSE IF sn.does = "use"
    THEN IF RunsClean(sn, S, rep, g, l) THEN Return("str", <<"out">>, <<>>)
         ELSE Return("str", <<"Execution Error: ", "NameError">>, <<>>)
    ELSE IF sn.does = "call"
    THEN LET r == call_mcp_tool(S, sn.server, <<"echo">>, {<<"text", "hi">>}, rep)
         IN  IF r.out = "raise" THEN Return("str", <<"Execution Error: ", r.kind>>, r.calls)
             ELSE IF r.kind = "str" THEN Return("str", r.val, r.calls)
             ELSE Return("str", StrOf(r.kind), r.calls)
    ELSE IF ExceptException(ErrorClass(sn))
    THEN Return("str", <<"Execution Error: ", "e">>, <<>>)
    ELSE Raise(ErrorClass(sn), <<>>)

\* ---- the conversation loop -------------------------------------------------
\* `for turn in range(N)`: whether another iteration follows iteration t
HasNextTurn_inclusive(t, m) == t + 1 <= MaxTurns(m)

HasNextTurn(t, m) == t + 1 < MaxTurns(m)

\* the end of one iteration of the loop body: the next iteration, or the loop is over
NextIteration ==
    IF HasNextTurn(turn, mode)
    THEN pc' = "request" /\ turn' = turn + 1
    ELSE pc' = "done" /\ turn' = turn

\* the messages list before the loop: system and user (discovery: user only)
InitialMessages(m) == IF m = "discovery" THEN 1 ELSE 2

\* code_mode line 165: persistent_globals = {"os": os, "asyncio": asyncio, ...}
InitialGlobals == {"os", "asyncio", "json", "mcp_bridge"}

\* how the connection to one server goes at startup: stdio_client cannot start the
\* subprocess (a missing launch command included), the handshake fails once the subprocess
\* runs, list_tools fails after the handshake, or all of it succeeds. code_mode lists no
\* tools at startup.
StartupOutcomes(m) ==
    IF m = "code" THEN {"ok", "spawn_failed", "handshake_failed"}
    ELSE {"ok", "spawn_failed", "handshake_failed", "list_failed"}

\* the stdio_client context was entered: the subprocess runs and its pipes are open
Held(outcome) == outcome # "spawn_failed"

\* the end of the run in a driver that closes the stack after the loop, with no `finally`
Finally_onSuccess(pcNext, held) == IF pcNext = "done" THEN {} ELSE held

\* `finally: await stack.aclose()` (traditional_mode 200-201, code_mode 233-234) and the
\* exit of the two `async with` (discovery_mode 26-27): when the run is over, normally or
\* with an error, whatever was entered is released
Finally(pcNext, held) == IF pcNext \in {"done", "raised"} THEN {} ELSE held

\* start_mcp_servers (discovery: the two `async with`, initialize and list_tools): every
\* configured server is tried in turn; traditional and code log a failure and go on,
\* discovery has no try around its connection
StartMcpServers ==
    /\ pc = "startup"
    /\ \E outcome \in [ConfiguredServers(mode) -> StartupOutcomes(mode)] :
          LET ok == {s \in ConfiguredServers(mode) : outcome[s] = "ok"}
          IN  /\ Cardinality(ConfiguredServers(mode) \ ok) <= MaxFailedServers
              /\ startup' = outcome
              /\ IF mode = "discovery" /\ ok = {}
                 THEN pc' = "raised" /\ raised' = "startup" /\ nMessages' = nMessages
                 ELSE pc' = "request" /\ raised' = raised
                      /\ nMessages' = InitialMessages(mode)
              /\ sessions' = IF mode = "code" THEN {} ELSE ok
              /\ ACTIVE_SESSIONS' =
                    IF mode = "code"
                    THEN [s \in DOMAIN ACTIVE_SESSIONS \cup ok |-> Session(s)]
                    ELSE ACTIVE_SESSIONS
              /\ live' = Finally(pc', {s \in ConfiguredServers(mode) : Held(outcome[s])})
    /\ persistent_globals' = IF mode = "code" THEN InitialGlobals ELSE {}
    /\ persistent_locals' = {}
    /\ UNCHANGED <<mode, turn, chatRequests, turnDispatches, multiCallTurns, lastMsg, pending,
                   turnMessages,
                   finalAnswer, turn_count, total_input_tokens, total_output_tokens, report>>
    /\ UNCHANGED <<bpc, request, reply, ret, forwarded>>

\* response.usage of a chat completion
PromptTokens == 3
CompletionTokens == 2
Usage == [prompt_tokens |-> PromptTokens, completion_tokens |-> CompletionTokens]

\* the drivers that keep turn_count, total_input_tokens and total_output_tokens
TracksTokens(m) == m \in {"traditional", "code"}

\* the "TOKEN USAGE" summary printed after the loop (traditional_mode 191-198,
\* code_mode 224-231); discovery_mode prints none
NoReport == [printed |-> FALSE, turns |-> 0, input |-> 0, output |-> 0]
Summary(m, pcNext, turns, input, output, old) ==
    IF pcNext = "done" /\ TracksTokens(m)
    THEN [printed |-> TRUE, turns |-> turns, input |-> input, output |-> output]
    ELSE old

\* the assistant messages the endpoint may return
Responses(m) ==
    {[content |-> c, tool_calls |-> <<>>] : c \in Contents}
        \cup {[content |-> NoneContent, tool_calls |-> WithIds(l)] : l \in ToolCallLists(m)}

\* what the driver prints for a message without tool calls, and whether it breaks
\* traditional_mode lines 131-133
TraditionalFinal(msg) ==
    [answer |-> IF Truthy(msg.content) THEN msg.content.text ELSE <<"Done">>,
     prints |-> TRUE, breaks |-> TRUE]
\* code_mode lines 204-207
CodeFinal(msg, t) ==
    [answer |-> msg.content.text,
     prints |-> Truthy(msg.content) /\ (HasAnswerTag(msg.content) \/ t = LastCodeTurn),
     breaks |-> TRUE]
\* discovery_mode lines 102-105
DiscoveryFinal(msg) ==
    [answer |-> msg.content.text,
     prints |-> Truthy(msg.content),
     breaks |-> Truthy(msg.content)]

FinalOf(m, msg, t) ==
    IF m = "traditional" THEN TraditionalFinal(msg)
    ELSE IF m = "code" THEN CodeFinal(msg, t)
    ELSE DiscoveryFinal(msg)

\* the outcome of one iteration of `for tool_call in msg.tool_calls`:
\* [raises, origin, content, dispatched]
Appended(content, n) == [raises |-> FALSE, origin |-> "none", content |-> content, dispatched |-> n]
Escapes(origin, n) == [raises |-> TRUE, origin |-> origin, content |-> <<>>, dispatched |-> n]

\* '\n'.join(item.text if hasattr(item, 'text') else str(item) for item in result.content)
JoinContent(content) ==
    IF content = <<>> THEN <<>>
    ELSE IF content[1].type = "text" THEN content[1].text
    ELSE StrOf("item")

\* traditional_mode lines 136-189
TraditionalToolCall(tc, connected, rep) ==
    LET k == FindTool(all_tools(connected), tc.name)
    IN  IF k = 0 THEN Appended(<<"Error: Unknown tool ">> \o tc.name, 0)
        ELSE IF ~tc.arguments.decodes THEN Appended(<<"Error: ", "JSONDecodeError">>, 0)
        ELSE IF rep.raises THEN Appended(<<"Error: ", "call_tool">>, 1)
        ELSE Appended(JoinContent(rep.content), 1)

\* discovery_mode lines 74-97
DiscoveryToolCall(tc, rep) ==
    IF ~tc.arguments.decodes THEN Escapes("arguments", 0)
    ELSE IF rep.raises THEN Escapes("call_tool", 1)
    ELSE IF Len(rep.content) > 0
    THEN Appended(IF rep.content[1].type = "text" THEN rep.content[1].text
                  ELSE StrOf("item"), 1)
    ELSE Appended(StrOf("result"), 1)

\* code_mode lines 210-222
CodeToolCall(tc, S, rep, g, l) ==
    IF ~tc.arguments.decodes \/ "code" \notin tc.arguments.keys THEN Escapes("arguments", 0)
    ELSE LET r == execute_code(tc.arguments.code, S, rep, g, l)
         IN  IF r.out = "raise" THEN Escapes("snippet", 1)
             ELSE Appended(r.val, 1)

ToolCallOutcome(m, tc, connected, S, rep, g, l) ==
    IF m = "traditional" THEN TraditionalToolCall(tc, connected, rep)
    ELSE IF m = "discovery" THEN DiscoveryToolCall(tc, rep)
    ELSE CodeToolCall(tc, S, rep, g, l)

\* whether the tool call reaches execute_code (code_mode line 215)
ReachesExecute(m, tc) ==
    m = "code" /\ tc.arguments.decodes /\ "code" \in tc.arguments.keys

\* how many calls reach a session while the driver runs the requested tool calls in
\* order (code_mode lines 210-222): a snippet that calls a connected server through the
\* bridge forwards one; a tool call that leaves the loop (arguments that do not decode or
\* hold no code, a snippet whose error execute_code does not catch) ends the run, and the
\* tool calls after it are not executed
RECURSIVE BridgeCalls(_, _, _)
BridgeCalls(m, calls, S) ==
    IF m # "code" \/ calls = <<>> THEN 0
    ELSE LET tc == Head(calls)
         IN  IF CodeToolCall(tc, S, RaiseReply, {}, {}).raises THEN 0
             ELSE Len(execute_code(tc.arguments.code, S, RaiseReply, {}, {}).calls)
                  + BridgeCalls(m, Tail(calls), S)

\* one chat.completions.create call and the handling of its response up to the first
\* tool dispatch
ChatRequest ==
    /\ pc = "request"
    /\ turn_count' = IF TracksTokens(mode) THEN turn_count + 1 ELSE turn_count
    /\ chatRequests' = chatRequests + 1
    /\ \/ \* the endpoint fails: the error leaves the loop
          /\ pc' = "raised"
          /\ raised' = "chat"
          /\ UNCHANGED <<turn, multiCallTurns, lastMsg, pending, turnMessages, nMessages, finalAnswer,
                         total_input_tokens, total_output_tokens>>
       \/ \E msg \in Responses(mode) :
          /\ Len(forwarded) + BridgeCalls(mode, msg.tool_calls, ACTIVE_SESSIONS) <= MaxForwarded
          /\ Len(msg.tool_calls) > 1 => multiCallTurns < MaxMultiCallTurns
          /\ multiCallTurns' = IF Len(msg.tool_calls) > 1 THEN multiCallTurns + 1
                                ELSE multiCallTurns
          /\ total_input_tokens' =
                IF TracksTokens(mode) THEN total_input_tokens + Usage.prompt_tokens
                ELSE total_input_tokens
          /\ total_output_tokens' =
                IF TracksTokens(mode) THEN total_output_tokens + Usage.completion_tokens
                ELSE total_output_tokens
          /\ lastMsg' = msg
          /\ turnMessages' = <<AssistantMessage(msg)>>
          /\ nMessages' = nMessages + 1
          /\ raised' = raised
          /\ IF msg.tool_calls # <<>>
             THEN /\ pc' = "dispatch"
                  /\ pending' = msg.tool_calls
                  /\ UNCHANGED <<turn, finalAnswer>>
             ELSE LET f == FinalOf(mode, msg, turn)
                  IN  /\ pending' = <<>>
                      /\ finalAnswer' = IF f.prints THEN f.answer ELSE finalAnswer
                      /\ IF f.breaks THEN pc' = "done" /\ turn' = turn ELSE NextIteration
    /\ turnDispatches' = 0
    /\ report' = Summary(mode, pc', turn_count', total_input_tokens', total_output_tokens',
                         report)
    /\ live' = Finally(pc', live)
    /\ UNCHANGED <<mode, sessions, startup, persistent_globals, persistent_locals>>
    /\ UNCHANGED bridgeVars

\* one iteration of the loop over msg.tool_calls; rep is what the tool server answers if
\* the call reaches it
ExecToolCall ==
    /\ pc = "dispatch"
    /\ pending # <<>>
    /\ \E rep \in AgentReplies :
          LET o == ToolCallOutcome(mode, Head(pending), sessions, ACTIVE_SESSIONS, rep,
                                   persistent_globals, persistent_locals)
              after == NamesAfter(Head(pending).arguments.code, ACTIVE_SESSIONS, rep,
                                  persistent_globals, persistent_locals)
              \* code mode: the calls the snippet makes through mcp_bridge.call_mcp_tool
              \* (code_mode line 215, execute_code line 41, mcp_bridge line 13)
              made == IF ReachesExecute(mode, Head(pending))
                      THEN execute_code(Head(pending).arguments.code, ACTIVE_SESSIONS, rep,
                                        persistent_globals, persistent_locals).calls
                      ELSE <<>>
          IN  /\ turnDispatches' = turnDispatches + o.dispatched
              /\ forwarded' = forwarded \o made
              /\ IF ReachesExecute(mode, Head(pending))
                 THEN /\ persistent_globals' = after.globals
                      /\ persistent_locals' = after.locals
                 ELSE UNCHANGED <<persistent_globals, persistent_locals>>
              /\ IF o.raises
                 THEN /\ pc' = "raised"
                      /\ raised' = o.origin
                      /\ UNCHANGED <<turn, pending, turnMessages, nMessages>>
                 ELSE /\ turnMessages' =
                            Append(turnMessages, ToolMessage(Head(pending).id, o.content))
                      /\ nMessages' = nMessages + 1
                      /\ pending' = Tail(pending)
                      /\ raised' = raised
                      /\ IF Tail(pending) = <<>>
                         THEN NextIteration
                         ELSE pc' = "dispatch" /\ turn' = turn
    /\ report' = Summary(mode, pc', turn_count, total_input_tokens, total_output_tokens,
                         report)
    /\ live' = Finally(pc', live)
    /\ UNCHANGED <<mode, sessions, chatRequests, multiCallTurns, lastMsg, finalAnswer, startup,
                   turn_count,
                   total_input_tokens, total_output_tokens>>
    /\ UNCHANGED <<ACTIVE_SESSIONS, bpc, request, reply, ret>>

(***************************************************************************)
(* The registry builders: build_registry.build_code_registry ("code") and  *)
(* get_tools.build_registry with fetch_and_save_server_tools ("json").     *)
(***************************************************************************)
Builders == {"code", "json"}
Commands == {"uvx", "npx"}

Config(n, c) == [name |-> n, cmd |-> c]

\* build_registry.py: server_configs
CodeConfigs ==
    <<Config("time", "uvx"), Config("sqlite", "uvx"), Config("git", "uvx"),
      Config("github", "npx"), Config("filesystem", "npx")>>

\* get_tools.py: the four fetches handed to asyncio.gather
JsonConfigs ==
    <<Config("sqlite", "uvx"), Config("filesystem", "npx"), Config("git", "uvx"),
      Config("time", "uvx")>>

ConfigsOf(b) == IF b = "code" THEN CodeConfigs ELSE JsonConfigs
ConfiguredNames(b) == {ConfigsOf(b)[k].name : k \in 1..Len(ConfigsOf(b))}
PositionOf(b, s) == CHOOSE k \in 1..Len(ConfigsOf(b)) : ConfigsOf(b)[k].name = s
CommandOf(b, s) == ConfigsOf(b)[PositionOf(b, s)].cmd

\* the directories that can exist under REGISTRY_ROOT
DirNames == ServerNames \cup {"legacy"}

\* the capability lists a server may answer to list_tools
AllListed == <<<<"echo">>, <<"get", "_", "time">>, <<"convert">>, <<"now">>>>
\* a server may also list a name twice, or names that are the names of index files
\* (index.json for the json builder, __init__.py for the code builder)
OddListings == {<<AllListed[1], AllListed[1]>>, <<<<"index">>, <<"__init__">>>>}
Listings == {SubSeq(AllListed, 1, n) : n \in 0..MaxListed} \cup OddListings

\* ---- the file system under REGISTRY_ROOT -----------------------------------
FileName(stem, ext) == [stem |-> stem, ext |-> ext]
File(name, kind, server, names) ==
    [name |-> name, content |-> [kind |-> kind, server |-> server, names |-> names]]

\* open(path, "w") and write: the file is created or replaced
WriteFile(dir, f) == {g \in dir : g.name # f.name} \cup {f}

NoFiles == [d \in DirNames |-> {}]
StaleFile == File(FileName(<<"old">>, ".json"), "tool", "time", <<<<"old">>>>)

\* the registry before the build: no root, an empty root, or the files of an earlier build
PriorRegistries ==
    {[root |-> FALSE, dirs |-> {}, files |-> NoFiles],
     [root |-> TRUE, dirs |-> {}, files |-> NoFiles],
     [root |-> TRUE, dirs |-> {"time", "legacy"},
      files |-> [NoFiles EXCEPT !["time"] = {StaleFile}]]}

\* ---- what is written for one server ----------------------------------------
ToolExt(b) == IF b = "code" THEN ".py" ELSE ".json"

\* json: json.dump(t_def) to {safe_name}.json; code: generate_python_wrapper to {safe_name}.py
ToolFile(b, s, tool) ==
    File(FileName(tool, ToolExt(b)), IF b = "code" THEN "wrapper" ELSE "tool", s, <<tool>>)

\* the files of the first k tools of a listing, written in order
RECURSIVE WriteTools(_, _, _, _, _)
WriteTools(dir, b, s, listing, k) ==
    IF k = 0 THEN dir
    ELSE WriteFile(WriteTools(dir, b, s, listing, k - 1), ToolFile(b, s, listing[k]))

\* the file of a tool whose write failed after open(path, "w") had made it: empty or
\* cut short
IncompleteFile(b, s, tool) == File(FileName(tool, ToolExt(b)), "incomplete", s, <<>>)

\* the loop stops at tool k + 1: its dump, its wrapper or the open fails (no file), or the
\* write fails once the file is open (partial: an incomplete file stays)
WriteFailed(dir, b, s, listing, k, partial) ==
    IF partial
    THEN WriteFile(WriteTools(dir, b, s, listing, k), IncompleteFile(b, s, listing[k + 1]))
    ELSE WriteTools(dir, b, s, listing, k)

\* the index files a builder writes after the tool files, in order
\* (json: index.json; code: __init__.py, then INDEX.md)
IndexCount(b) == IF b = "code" THEN 2 ELSE 1
IndexFile(b, s, listing, j) ==
    IF b = "code"
    THEN IF j = 1 THEN File(FileName(<<"__init__">>, ".py"), "init", s, listing)
         ELSE File(FileName(<<"INDEX">>, ".md"), "index", s, listing)
    ELSE File(FileName(<<"index">>, ".json"), "index", s, listing)

\* the first j index files written
RECURSIVE WriteIndexFiles(_, _, _, _, _)
WriteIndexFiles(dir, b, s, listing, j) ==
    IF j = 0 THEN dir
    ELSE WriteFile(WriteIndexFiles(dir, b, s, listing, j - 1), IndexFile(b, s, listing, j))

\* json: index.json; code: __init__.py, then INDEX.md
WriteIndex(dir, b, s, listing) == WriteIndexFiles(dir, b, s, listing, IndexCount(b))

\* the writing of the index files stops at file j + 1: the open fails (no file), or the
\* write fails once the file is open (partial: an incomplete file stays)
IndexFailed(dir, b, s, listing, j, partial) ==
    IF partial
    THEN WriteFile(WriteIndexFiles(dir, b, s, listing, j),
                   [name |-> IndexFile(b, s, listing, j + 1).name,
                    content |-> [kind |-> "incomplete", server |-> s, names |-> <<>>]])
    ELSE WriteIndexFiles(dir, b, s, listing, j)

\* ---- the servers as the builder meets them -------------------------------------
\* A live server behaves the same way whenever a builder talks to it: where its
\* processing ends ("ok" or the step that fails), the tools it lists, how many tool
\* files and how many index files are written before a write fails, and whether the
\* failing write had opened its file (partial).
Behaviour(how, listing, written, indexed, partial) ==
    [how |-> how, listing |-> listing, written |-> written, indexed |-> indexed,
     partial |-> partial]
Unknown == Behaviour("unknown", <<>>, 0, 0, FALSE)

\* what the writing of server s leaves in its directory, the server behaving as beh:
\* the files up to the one whose writing failed, or all of them
Saved(dir, b, s, beh) ==
    IF beh.how = "ok"
    THEN WriteIndex(WriteTools(dir, b, s, beh.listing, Len(beh.listing)), b, s, beh.listing)
    ELSE IF beh.how # "failed_write" THEN dir
    ELSE IF beh.written < Len(beh.listing)
    THEN WriteFailed(dir, b, s, beh.listing, beh.written, beh.partial)
    ELSE IndexFailed(WriteTools(dir, b, s, beh.listing, Len(beh.listing)), b, s,
                     beh.listing, beh.indexed, beh.partial)
NoRegistry == [dirs |-> {}, files |-> NoFiles]

\* the server has not been met yet, or behaved as b before
BehavesAs(s, b) == served[s] \in {Unknown, b}

\* the server is not known to fail at this step
Passes(s, how) == served[s].how # how

\* ---- the bridge file of the code builder --------------------------------------
\* a line of text: its leading spaces and what it holds. Code lines carry the names the
\* template interpolates; the lines of a description or of a parameter text are "text".
Line(indent, kind, name, server) ==
    [indent |-> indent, kind |-> kind, name |-> name, server |-> server]
TextLine(indent) == Line(indent, "text", <<>>, "none")
BlankLine == Line(0, "blank", <<>>, "none")

\* the text handed to f.write: the first line starts right after the opening quotes, the
\* others keep the twelve (or more) spaces they have in build_registry.py
BridgeFileText ==
    <<Line(0, "comment", <<>>, "none"),
      Line(12, "import", <<>>, "none"),
      BlankLine,
      Line(12, "comment", <<>>, "none"),
      Line(12, "assign", <<"ACTIVE_SESSIONS">>, "none"),
      BlankLine,
      Line(12, "def", <<"call_mcp_tool">>, "none"),
      Line(16, "if", <<>>, "none"),
      Line(20, "return_error", <<>>, "none"),
      BlankLine,
      Line(16, "session", <<>>, "none"),
      Line(16, "call_tool", <<>>, "none"),
      Line(16, "return_content", <<>>, "none"),
      BlankLine>>

\* ---- the handlers ------------------------------------------------------------
\* `except Exception as e` around a server's processing, taken as catching nothing
BuilderCatches_nothing(class) == FALSE

\* `except Exception as e` around a server's processing
\* (build_registry.py line 138, get_tools.py line 70)
BuilderCatches(class) == class = "Exception"

Terminal == {"skipped", "failed_connect", "failed_initialize", "failed_list",
             "failed_write", "ok"}

\* the server the builder may advance: the current one (code), any of them (json: the
\* fetches are tasks of one asyncio.gather)
MayStep(s) ==
    /\ bphase = "servers"
    /\ s \in ConfiguredNames(builder)
    /\ builder = "code" => (cur <= Len(CodeConfigs) /\ CodeConfigs[cur].name = s)

\* the code builder moves to the next server once the current one is over
Advance(st) == IF builder = "code" /\ st \in Terminal THEN cur + 1 ELSE cur

\* a failure of server s, raised inside its try block: caught and logged, or the build
\* ends with the error
FailServer(s, how) ==
    IF BuilderCatches("Exception")
    THEN /\ status' = [status EXCEPT ![s] = how]
         /\ cur' = Advance(how)
         /\ bphase' = bphase
    ELSE /\ bphase' = "raised"
         /\ UNCHANGED <<status, cur>>

\* server s fails at step `how` (and is remembered to)
Fails(s, how) ==
    /\ BehavesAs(s, Behaviour(how, <<>>, 0, 0, FALSE))
    /\ served' = [served EXCEPT ![s] = Behaviour(how, <<>>, 0, 0, FALSE)]
    /\ FailServer(s, how)

\* the start of a builder that makes the root without removing it first
BuildStart_keepsRoot ==
    /\ bphase = "start"
    /\ rootExists' = TRUE
    /\ dbExists' = TRUE
    /\ bridge_file' = IF builder = "code" THEN BridgeFileText ELSE bridge_file
    /\ bphase' = "servers"
    /\ cur' = 1
    /\ UNCHANGED <<builder, hostCmds, status, dirs, files, served, builds, firstBuild>>

\* the start of either builder: rmtree(REGISTRY_ROOT), makedirs, the temporary database
BuildStart ==
    /\ bphase = "start"
    /\ rootExists' = TRUE
    /\ dirs' = {}
    /\ files' = NoFiles
    /\ dbExists' = TRUE
    \* build_registry.py lines 61-76: the code builder writes mcp_bridge.py
    /\ bridge_file' = IF builder = "code" THEN BridgeFileText ELSE bridge_file
    /\ bphase' = "servers"
    /\ cur' = 1
    /\ UNCHANGED <<builder, hostCmds, status, served, builds, firstBuild>>

\* code builder, lines 94-99: skip the server when its command is missing, else make its
\* directory
CodeServerBegin(s) ==
    /\ builder = "code"
    /\ MayStep(s)
    /\ status[s] = "idle"
    /\ IF CommandOf(builder, s) \notin hostCmds
       THEN /\ status' = [status EXCEPT ![s] = "skipped"]
            /\ cur' = cur + 1
            /\ UNCHANGED <<dirs, files>>
       ELSE /\ status' = [status EXCEPT ![s] = "connecting"]
            /\ cur' = cur
            /\ dirs' = dirs \cup {s}
            /\ files' = files
    /\ UNCHANGED <<builder, bphase, hostCmds, rootExists, dbExists, served, builds, firstBuild>>

\* a fetch that starts by removing the registry root instead of its own directory
FetchBegin_clearsRoot(s) ==
    /\ builder = "json"
    /\ MayStep(s)
    /\ status[s] = "idle"
    /\ status' = [status EXCEPT ![s] = "connecting"]
    /\ dirs' = {s}
    /\ files' = NoFiles
    /\ UNCHANGED <<builder, bphase, hostCmds, cur, rootExists, dbExists, served, builds,
                   firstBuild>>

\* json builder, lines 27-30: remove the server's directory if it exists, and make it
FetchBegin(s) ==
    /\ builder = "json"
    /\ MayStep(s)
    /\ status[s] = "idle"
    /\ status' = [status EXCEPT ![s] = "connecting"]
    /\ dirs' = dirs \cup {s}
    /\ files' = [files EXCEPT ![s] = {}]
    /\ UNCHANGED <<builder, bphase, hostCmds, cur, rootExists, dbExists, served, builds,
                   firstBuild>>

\* `async with stdio_client(params)`: the subprocess starts, or the spawn fails (always
\* when the command is missing)
Connect(s) ==
    /\ MayStep(s)
    /\ status[s] = "connecting"
    /\ \/ /\ CommandOf(builder, s) \in hostCmds
          /\ Passes(s, "failed_connect")
          /\ status' = [status EXCEPT ![s] = "initializing"]
          /\ UNCHANGED <<cur, bphase, served>>
       \/ Fails(s, "failed_connect")
    /\ UNCHANGED <<builder, hostCmds, rootExists, dirs, files, dbExists, builds, firstBuild>>

\* `await session.initialize()`: the handshake completes or fails
Initialize(s) ==
    /\ MayStep(s)
    /\ status[s] = "initializing"
    /\ \/ /\ Passes(s, "failed_initialize")
          /\ status' = [status EXCEPT ![s] = "listing"]
          /\ UNCHANGED <<cur, bphase, served>>
       \/ Fails(s, "failed_initialize")
    /\ UNCHANGED <<builder, hostCmds, rootExists, dirs, files, dbExists, builds, firstBuild>>

\* server s may be irregular (a failing write, an odd listing): at most MaxIrregular
\* servers are
Irregular(beh) == beh.how = "failed_write" \/ beh.listing \in OddListings
IrregularAllowed(s) ==
    Cardinality({t \in DOMAIN served \ {s} : Irregular(served[t])}) < MaxIrregular

\* `await session.list_tools()`, the loop that writes the tool files and the writing of
\* the index files: list_tools fails, or answers a listing; writing stops at the first
\* file that cannot be made or written, with or without an incomplete file in its place
ListAndSave(s) ==
    /\ MayStep(s)
    /\ status[s] = "listing"
    /\ \/ /\ Fails(s, "failed_list")
          /\ files' = files
       \* a server met before lists what it listed then (see BehavesAs)
       \/ \E listing \in (IF served[s] = Unknown THEN Listings ELSE {served[s].listing}) :
             \* a tool file (k + 1 of the listing) or an index file (j + 1) fails
             \/ \E k \in 0..Len(listing), j \in 0..(IndexCount(builder) - 1),
                   partial \in BOOLEAN :
                   LET beh == Behaviour("failed_write", listing, k,
                                        IF k < Len(listing) THEN 0 ELSE j, partial)
                   IN  /\ k < Len(listing) => j = 0
                       /\ BehavesAs(s, beh)
                       /\ IrregularAllowed(s)
                       /\ served' = [served EXCEPT ![s] = beh]
                       /\ files' = [files EXCEPT ![s] = Saved(@, builder, s, beh)]
                       /\ FailServer(s, "failed_write")
             \/ LET beh == Behaviour("ok", listing, Len(listing), IndexCount(builder), FALSE)
                IN  /\ BehavesAs(s, beh)
                    /\ listing \in OddListings => IrregularAllowed(s)
                    /\ served' = [served EXCEPT ![s] = beh]
                    /\ files' = [files EXCEPT ![s] = Saved(@, builder, s, beh)]
                    /\ status' = [status EXCEPT ![s] = "ok"]
                    /\ cur' = Advance("ok")
                    /\ bphase' = bphase
    /\ UNCHANGED <<builder, hostCmds, rootExists, dirs, dbExists, builds, firstBuild>>

\* after the loop (code) or the gather (json): the temporary database is removed
BuildFinish ==
    /\ bphase = "servers"
    /\ \A s \in ConfiguredNames(builder) : status[s] \in Terminal
    /\ dbExists' = FALSE
    /\ bphase' = "finished"
    /\ builds' = builds + 1
    /\ firstBuild' = IF builds = 0 THEN [dirs |-> dirs, files |-> files] ELSE firstBuild
    /\ UNCHANGED <<builder, hostCmds, cur, status, rootExists, dirs, files, served>>

\* the builder script is run again: a new process, the disk as the last build left it
Rebuild ==
    /\ bphase = "finished"
    /\ builds < MaxBuilds
    /\ bphase' = "start"
    /\ cur' = 0
    /\ status' = [s \in ConfiguredNames(builder) |-> "idle"]
    /\ UNCHANGED <<builder, hostCmds, rootExists, dirs, files, dbExists, served, builds,
                   firstBuild>>

(***************************************************************************)
(* The wrapper generator: build_registry.generate_python_wrapper, and what *)
(* Python makes of the file it writes.                                     *)
(***************************************************************************)
\* tool['description'] and a property's description: one or more lines, each with the
\* leading spaces the server gave it
OneLine == <<TextLine(0)>>
TwoLines == <<TextLine(0), TextLine(0)>>
TwoLinesIndented == <<TextLine(0), TextLine(4)>>
Descriptions == {OneLine, TwoLines, TwoLinesIndented}

\* tool['inputSchema']['properties'], in order: each property's description
Schemas == {<<>>, <<OneLine>>, <<OneLine, OneLine>>}

\* the tool names a server may list: pieces of letters, "_" and "-"
WrapperToolNames == {<<"echo">>, <<"get", "_", "time">>, <<"get", "-", "time">>}

\* a text inserted after `lead` spaces of the template: its first line is moved right
Inserted(lead, text) ==
    [i \in 1..Len(text) |->
        IF i = 1 THEN [text[i] EXCEPT !.indent = @ + lead] ELSE text[i]]

\* lines 29-35: params_doc and params_str
RECURSIVE params_doc(_)
params_doc(props) ==
    IF props = <<>> THEN <<>>
    ELSE Inserted(4, Head(props)) \o params_doc(Tail(props))

params_str(props) == IF props = <<>> THEN <<TextLine(4)>> ELSE params_doc(props)

\* lines 38-50: the f-string template, before dedent
Template(server_name, tool) ==
    <<Line(4, "comment", tool.name, "none"),
      Line(4, "import", <<>>, "none"),
      BlankLine,
      Line(4, "def", tool.name, "none"),
      Line(8, "docstring", <<>>, "none")>>
    \o Inserted(8, tool.description)
    \o <<BlankLine, TextLine(8)>>
    \o Inserted(4, params_str(tool.properties))
    \o <<Line(8, "docstring", <<>>, "none"),
         Line(8, "return", tool.name, server_name)>>

\* textwrap.dedent: the leading spaces common to all lines that are not blank are removed
Margin(lines) ==
    LET indents == {lines[i].indent : i \in {j \in 1..Len(lines) : lines[j].kind # "blank"}}
    IN  CHOOSE m \in indents : \A n \in indents : m <= n

dedent(lines) ==
    [i \in 1..Len(lines) |->
        IF lines[i].kind = "blank" THEN lines[i]
        ELSE [lines[i] EXCEPT !.indent = @ - Margin(lines)]]

generate_python_wrapper(server_name, tool) == dedent(Template(server_name, tool))

\* ---- Python reading the file -------------------------------------------------
\* a name Python accepts after `def`: letters, digits and "_" only
IsIdentifier(name) == name # <<>> /\ \A i \in 1..Len(name) : name[i] # "-"

\* the one line of a kind
TheLine(lines, kind) == lines[CHOOSE i \in 1..Len(lines) : lines[i].kind = kind]

NoModule == [ok |-> FALSE, error |-> "none", def |-> <<>>, server |-> "none", tool |-> <<>>]

\* import of the module: the statements at module level must start in column 0 and the
\* function body must be indented under its def (the text between the two docstring
\* marks is free); the module then defines one coroutine function, whose body returns
\* await call_mcp_tool(<server literal>, <tool literal>, kwargs)
LoadModule(lines) ==
    LET imp == TheLine(lines, "import")
        d == TheLine(lines, "def")
        r == TheLine(lines, "return")
    IN  IF imp.indent # 0 \/ d.indent # 0 \/ r.indent <= d.indent
        THEN [NoModule EXCEPT !.error = "IndentationError"]
        ELSE IF ~IsIdentifier(d.name)
        THEN [NoModule EXCEPT !.error = "SyntaxError"]
        ELSE [ok |-> TRUE, error |-> "none", def |-> d.name, server |-> r.server,
              tool |-> r.name]

\* `from <file> import <t>` and `await t(kwargs)`
CallWrapper(lines, t, kwargs, S, rep) ==
    LET m == LoadModule(lines)
    IN  IF ~m.ok THEN Raise(m.error, <<>>)
        ELSE IF m.def # t THEN Raise("ImportError", <<>>)
        ELSE call_mcp_tool(S, m.server, m.tool, kwargs, rep)

NoCapability ==
    [server |-> "none", name |-> <<>>, description |-> <<>>, properties |-> <<>>,
     kwargs |-> {}]

WrapperOff ==
    /\ wpc = "off"
    /\ wcap = NoCapability
    /\ wfile = <<>>
    /\ bridge_file = <<>>
    /\ gen_ret = NoRet

WrapperInit ==
    /\ wpc = "generate"
    /\ wcap \in [server : BridgeServers \cup {"sqlite"}, name : WrapperToolNames,
                 description : Descriptions, properties : Schemas, kwargs : ArgMaps]
    /\ wfile = <<>>
    /\ bridge_file = <<>>
    /\ gen_ret = NoRet

\* build_code_registry lines 120-122: the wrapper is generated and written
GenerateWrapper ==
    /\ wpc = "generate"
    /\ wfile' = generate_python_wrapper(wcap.server, wcap)
    /\ wpc' = "import"
    /\ UNCHANGED <<wcap, bridge_file, gen_ret, bridgeVars>>

\* a snippet imports the wrapper and awaits it with kwargs; the session answers with reply
ImportAndCall ==
    /\ wpc = "import"
    /\ LET r == CallWrapper(wfile, wcap.name, wcap.kwargs, ACTIVE_SESSIONS, reply)
       IN  /\ ret' = r
           /\ forwarded' = forwarded \o r.calls
    /\ wpc' = "called"
    /\ UNCHANGED <<wcap, wfile, bridge_file, gen_ret, ACTIVE_SESSIONS, bpc, request, reply>>

(***************************************************************************)
(* The bridge module build_code_registry writes to mcp_bridge.py           *)
(* (build_registry.py lines 61-76), and what Python makes of it.           *)
(***************************************************************************)
\* the statements of a file: its lines that are neither blank nor comments
Statements(lines) == SelectSeq(lines, LAMBDA l : l.kind \notin {"blank", "comment"})

\* Python compiling a module: its first statement must start in column 0
Compiles(lines) == Statements(lines) # <<>> /\ Statements(lines)[1].indent = 0

\* the body of the written call_mcp_tool (lines 68-74): it returns result.content as it
\* came, with no unwrapping
written_call_mcp_tool(S, server_name, tool_name, args, rep) ==
    IF server_name \notin DOMAIN S
    THEN Return("str", NotConnectedMessage(server_name), <<>>)
    ELSE LET call == [session |-> S[server_name], tool |-> tool_name, arguments |-> args]
         IN  IF rep.raises THEN Raise("call_tool", <<call>>)
             ELSE Return("content", rep.content, <<call>>)

\* `import mcp_bridge` of the written file, then `await mcp_bridge.call_mcp_tool(...)`
CallWrittenBridge(lines, S, server_name, tool_name, args, rep) ==
    IF ~Compiles(lines) THEN Raise("IndentationError", <<>>)
    ELSE written_call_mcp_tool(S, server_name, tool_name, args, rep)

\* the written bridge is imported and called with the request, the session answering reply
CallGeneratedBridge ==
    /\ wpc = "import"
    /\ bridge_file # <<>>
    /\ gen_ret' = CallWrittenBridge(bridge_file, ACTIVE_SESSIONS, request.server,
                                    request.tool, request.args, reply)
    /\ wpc' = "called"
    /\ UNCHANGED <<wcap, wfile, bridge_file, bridgeVars>>

(***************************************************************************)
(* The names under which tools are offered to the model, and their way     *)
(* back to a server and a tool: traditional_mode lines 46-63 and 136-161,  *)
(* discovery_mode lines 35-43 and 75-82.                                   *)
(***************************************************************************)
\* the catalogues a server may list: tool names with and without "_", and one that holds
\* the prefix of discovery_mode
NameCatalogs ==
    {<<>>,
     <<<<"echo">>>>,
     <<<<"echo">>, <<"get", "_", "time">>>>,
     <<<<"mcp", "_", "time", "_", "now">>, <<"echo">>>>}

\* the modes that offer the servers' tools under a name of their own
NameModes == {"traditional", "discovery"}

\* traditional_mode lines 45-62: all_tools, for what the servers list
RECURSIVE all_tools_listed(_, _, _)
all_tools_listed(servers, i, lst) ==
    IF i > Len(servers) THEN <<>>
    ELSE [k \in 1..Len(lst[servers[i]]) |->
             [server |-> servers[i], tool_name |-> lst[servers[i]][k]]]
         \o all_tools_listed(servers, i + 1, lst)

\* the capabilities behind the tools a mode offers, in order (discovery_mode lines 35-43:
\* one entry per tool of the time server)
OfferedTools(m, lst) == all_tools_listed(ServersOf(m), 1, lst)

\* function.name of the offer
OfferedName(m, entry) ==
    IF m = "traditional" THEN TraditionalName(entry.server, entry.tool_name)
    ELSE DiscoveryName(entry.tool_name)

NoDispatch == [server |-> "none", tool |-> <<>>]

\* traditional_mode lines 137-161: the first entry of all_tools with the requested name
\* gives the session and the tool name
TraditionalDispatch(tools, function_name) ==
    LET k == FindTool(tools, function_name)
    IN  IF k = 0 THEN NoDispatch
        ELSE [server |-> tools[k].server, tool |-> tools[k].tool_name]

\* discovery_mode lines 75 and 82: tool_call.function.name.replace("mcp_time_", ""),
\* sent to time_session
DiscoveryDispatch(function_name) ==
    [server |-> "time", tool |-> RemoveAll(function_name, McpTimePrefix)]

NamesOff ==
    /\ npc = "off"
    /\ nmode = "traditional"
    /\ listed = [s \in {} |-> <<>>]
    /\ offered = <<>>
    /\ wanted = 0
    /\ dispatched = NoDispatch

NamesInit ==
    /\ npc = "start"
    /\ nmode \in NameModes
    /\ listed \in [ConfiguredServers(nmode) -> NameCatalogs]
    /\ offered = <<>>
    /\ wanted = 0
    /\ dispatched = NoDispatch

\* startup: the tools of the servers are offered
OfferTools ==
    /\ npc = "start"
    /\ offered' = OfferedTools(nmode, listed)
    /\ npc' = "offered"
    /\ UNCHANGED <<nmode, listed, wanted, dispatched>>

\* the model asks for one of the offered tools, under its offered name
RequestTool ==
    /\ npc = "offered"
    /\ \E k \in 1..Len(offered) : wanted' = k
    /\ npc' = "requested"
    /\ UNCHANGED <<nmode, listed, offered, dispatched>>

\* the driver finds the session and the tool name for the requested name
DispatchTool ==
    /\ npc = "requested"
    /\ LET function_name == OfferedName(nmode, offered[wanted])
       IN  dispatched' = IF nmode = "traditional"
                         THEN TraditionalDispatch(offered, function_name)
                         ELSE DiscoveryDispatch(function_name)
    /\ npc' = "dispatched"
    /\ UNCHANGED <<nmode, listed, offered, wanted>>

(***************************************************************************)
(* The variables of the parts a specification does not run.                *)
(***************************************************************************)
NoAnswer == <<"no answer printed">>
NoMsg == [content |-> NoneContent, tool_calls |-> <<>>]

AgentOff ==
    /\ mode = "none"
    /\ pc = "off"
    /\ sessions = {}
    /\ turn = 0
    /\ chatRequests = 0
    /\ turnDispatches = 0
    /\ multiCallTurns = 0
    /\ lastMsg = NoMsg
    /\ pending = <<>>
    /\ turnMessages = <<>>
    /\ nMessages = 0
    /\ finalAnswer = NoAnswer
    /\ raised = "none"
    /\ startup = [s \in {} |-> "ok"]
    /\ live = {}
    /\ persistent_globals = {}
    /\ persistent_locals = {}
    /\ turn_count = 0
    /\ total_input_tokens = 0
    /\ total_output_tokens = 0
    /\ report = NoReport

BuildOff ==
    /\ builder = "none"
    /\ bphase = "off"
    /\ hostCmds = {}
    /\ cur = 0
    /\ status = [s \in {} |-> "idle"]
    /\ rootExists = FALSE
    /\ dirs = {}
    /\ files = NoFiles
    /\ dbExists = FALSE
    /\ served = [s \in {} |-> Unknown]
    /\ builds = 0
    /\ firstBuild = NoRegistry

(***************************************************************************)
(* SpecBridge: call_mcp_tool applied to every request and reply within the *)
(* bounds.                                                                 *)
(***************************************************************************)
InitBridge == BridgeInit /\ AgentOff /\ BuildOff /\ WrapperOff /\ NamesOff

NextBridge == CallMcpTool /\ UNCHANGED <<agentVars, buildVars, wrapperVars, nameVars>>

SpecBridge == InitBridge /\ [][NextBridge]_vars

\* the text of the reply's first content item, when it is a text item
ReplyHasText == ~reply.raises /\ Len(reply.content) > 0 /\ reply.content[1].type = "text"
ReplyText == reply.content[1].text

\* C1: a call for a server that is not a key of ACTIVE_SESSIONS returns a string naming
\* the server, raises nothing, forwards no call to any session and leaves ACTIVE_SESSIONS
\* as it was, for every tool name, argument mapping and table.
C1_AbsentServerReturnsString ==
    [][(bpc = "call" /\ request.server \notin DOMAIN ACTIVE_SESSIONS)
          => /\ ret'.out = "return"
             /\ ret'.kind = "str"
             /\ ret'.val = NotConnectedMessage(request.server)
             /\ forwarded' = <<>>
             /\ ACTIVE_SESSIONS' = ACTIVE_SESSIONS]_vars

C1_Witness ==
    /\ bpc = "returned"
    /\ request.server \notin DOMAIN ACTIVE_SESSIONS
    /\ DOMAIN ACTIVE_SESSIONS # {}
    /\ request.args # {}
    /\ ret.kind = "str"

\* C2 as stated: a text t that begins with "{" or "[" and is valid JSON comes back parsed;
\* every other t comes back unchanged.
C2_ParsedIffBeginsWithBracket ==
    (bpc = "returned" /\ request.server \in DOMAIN ACTIVE_SESSIONS /\ ReplyHasText)
        => IF startswith(ReplyText, {"{", "["}) /\ json_loads(ReplyText).ok
           THEN ret.out = "return" /\ ret.kind = "json" /\ ret.val = json_loads(ReplyText).val
           ELSE ret.out = "return" /\ ret.kind = "str" /\ ret.val = ReplyText

\* the first character of t that is not whitespace is "{" or "["
LooksLikeJson(t) == \E i \in 1..Len(t) :
    /\ t[i] \in {"{", "["}
    /\ \A j \in 1..(i - 1) : IsSpace(t[j])

\* C2 amended: a text t whose first non-whitespace character is "{" or "[" and that is
\* valid JSON comes back parsed; every other t comes back unchanged.
C2_ParsedIffLooksLikeJson ==
    (bpc = "returned" /\ request.server \in DOMAIN ACTIVE_SESSIONS /\ ReplyHasText)
        => IF LooksLikeJson(ReplyText) /\ json_loads(ReplyText).ok
           THEN ret.out = "return" /\ ret.kind = "json" /\ ret.val = json_loads(ReplyText).val
           ELSE ret.out = "return" /\ ret.kind = "str" /\ ret.val = ReplyText

\* a text with leading whitespace before the bracket was parsed
C2_Witness ==
    /\ bpc = "returned"
    /\ ReplyHasText
    /\ ReplyText = <<" ", "[", "]">>
    /\ ret.kind = "json"
    /\ ret.val = JList(<<>>)


(***************************************************************************)
(* SpecAgent: one run of a driver, from startup to the end of its loop.    *)
(***************************************************************************)
AgentInit ==
    /\ mode \in Modes
    /\ pc = "startup"
    /\ sessions = {}
    /\ turn = 0
    /\ chatRequests = 0
    /\ turnDispatches = 0
    /\ multiCallTurns = 0
    /\ lastMsg = NoMsg
    /\ pending = <<>>
    /\ turnMessages = <<>>
    /\ nMessages = 0
    /\ finalAnswer = NoAnswer
    /\ raised = "none"
    /\ startup = [s \in {} |-> "ok"]
    /\ live = {}
    /\ persistent_globals = {}
    /\ persistent_locals = {}
    /\ turn_count = 0
    /\ total_input_tokens = 0
    /\ total_output_tokens = 0
    /\ report = NoReport

InitAgent == AgentInit /\ BridgeOff /\ BuildOff /\ WrapperOff /\ NamesOff

NextAgent ==
    \/ StartMcpServers /\ UNCHANGED <<buildVars, wrapperVars, nameVars>>
    \/ ChatRequest /\ UNCHANGED <<buildVars, wrapperVars, nameVars>>
    \/ ExecToolCall /\ UNCHANGED <<buildVars, wrapperVars, nameVars>>

SpecAgent == InitAgent /\ [][NextAgent]_vars

C3_DispatchFailureNeverEscapes == raised \notin {"arguments", "call_tool"}

\* C5: a response without tool calls halts the run at once, whatever its content and turn.
C5_NoToolCallsHalts ==
    [][(pc = "request" /\ pc' # "raised" /\ lastMsg'.tool_calls = <<>>) => pc' = "done"]_vars

\* the call is one the driver can dispatch: an offered tool (traditional, discovery) or
\* a run_python call carrying code (code mode), with decodable arguments
WellFormedCall(m, tc, connected) ==
    /\ tc.arguments.decodes
    /\ IF m = "traditional" THEN FindTool(all_tools(connected), tc.name) # 0
       ELSE IF m = "discovery" THEN tc.name = DiscoveryName(<<"echo">>)
       ELSE "code" \in tc.arguments.keys

\* the first iteration is over and its response requested exactly one dispatchable call
AfterOneCallTurn ==
    /\ pc = "request"
    /\ chatRequests = 1
    /\ Len(lastMsg.tool_calls) = 1
    /\ WellFormedCall(mode, lastMsg.tool_calls[1], sessions)

\* C6: one tool call on turn 1, then a call-free message with non-empty content c on
\* turn 2: exactly 2 chat requests, exactly one dispatch, and c is the final answer.
C6_TwoTurnScenario ==
    [][(AfterOneCallTurn /\ pc' # "raised" /\ lastMsg'.tool_calls = <<>>
            /\ Truthy(lastMsg'.content))
          => /\ pc' = "done"
             /\ chatRequests' = 2
             /\ turnDispatches = 1
             /\ turnDispatches' = 0
             /\ finalAnswer' = lastMsg'.content.text]_vars

\* C7: no error raised by a run_python snippet leaves execute_code.
C7_SnippetErrorNeverEscapes == raised # "snippet"


(***************************************************************************)
(* SpecBuild: one run of a registry builder.                               *)
(***************************************************************************)
BuildInit ==
    /\ builder \in Builders
    /\ bphase = "start"
    /\ hostCmds \in SUBSET Commands
    /\ cur = 0
    /\ status = [s \in ConfiguredNames(builder) |-> "idle"]
    /\ \E prior \in PriorRegistries :
          /\ rootExists = prior.root
          /\ dirs = prior.dirs
          /\ files = prior.files
    /\ dbExists = FALSE
    /\ served = [s \in ConfiguredNames(builder) |-> Unknown]
    /\ builds = 0
    /\ firstBuild = NoRegistry

InitBuild == BuildInit /\ BridgeOff /\ AgentOff /\ WrapperOff /\ NamesOff

NextBuild ==
    \/ BuildStart /\ UNCHANGED <<bridgeVars, agentVars, wpc, wcap, wfile, gen_ret, nameVars>>
    \/ \E s \in ServerNames : CodeServerBegin(s) /\ UNCHANGED <<bridgeVars, agentVars, wrapperVars, nameVars>>
    \/ \E s \in ServerNames : FetchBegin(s) /\ UNCHANGED <<bridgeVars, agentVars, wrapperVars, nameVars>>
    \/ \E s \in ServerNames : Connect(s) /\ UNCHANGED <<bridgeVars, agentVars, wrapperVars, nameVars>>
    \/ \E s \in ServerNames : Initialize(s) /\ UNCHANGED <<bridgeVars, agentVars, wrapperVars, nameVars>>
    \/ \E s \in ServerNames : ListAndSave(s) /\ UNCHANGED <<bridgeVars, agentVars, wrapperVars, nameVars>>
    \/ BuildFinish /\ UNCHANGED <<bridgeVars, agentVars, wrapperVars, nameVars>>

\* a build against servers whose listings hold distinct names, none of them the name of
\* an index file
NextPlainBuild ==
    /\ NextBuild
    /\ \A s \in DOMAIN served' : served'[s].listing \notin OddListings

SpecBuild == InitBuild /\ [][NextPlainBuild]_vars

\* a build against servers that may also list a name twice or the name of an index file
SpecLayout == InitBuild /\ [][NextBuild]_vars

\* the servers whose launch command is not on the host
MissingCommand(s) == CommandOf(builder, s) \notin hostCmds

\* C8: after a build by either builder, a configured server whose launch command is missing
\* has no directory under the registry root, and the build did not raise.
C8_MissingCommandNoDirectory ==
    /\ bphase # "raised"
    /\ bphase = "finished"
          => \A s \in ConfiguredNames(builder) : MissingCommand(s) => s \notin dirs

\* no server could be reached: each was skipped or failed to connect or to shake hands
NoneReachable ==
    \A s \in ConfiguredNames(builder) :
        status[s] \in {"skipped", "failed_connect", "failed_initialize"}

\* C9: a build during which no configured server can be reached ends without raising and
\* leaves the registry root empty.
C9_NoneReachableEmptyRoot ==
    /\ bphase # "raised"
    /\ (bphase = "finished" /\ NoneReachable)
          => (dirs = {} /\ \A d \in DirNames : files[d] = {})

\* the directory of s holds an index and the file of every tool the index names
FilesWritten(s) ==
    /\ s \in dirs
    /\ \E f \in files[s] :
          /\ f.content.kind = "index"
          /\ f.content.server = s
          /\ \A i \in 1..Len(f.content.names) :
                ToolFile(builder, s, f.content.names[i]) \in files[s]

\* C10: a server's failure, wherever it occurs, does not end the build: the build does not
\* raise, every configured server is processed to its end, and a server that succeeded has
\* its files.
C10_FailureDoesNotAbortBuild ==
    /\ bphase # "raised"
    /\ bphase = "finished"
          => \A s \in ConfiguredNames(builder) :
                /\ status[s] \in Terminal
                /\ status[s] = "ok" => FilesWritten(s)

\* a server failed part-way between two servers that were built
C10_Witness ==
    /\ builder = "code"
    /\ bphase = "finished"
    /\ status["time"] = "ok"
    /\ status["sqlite"] = "failed_write"
    /\ files["sqlite"] # {}
    /\ status["git"] = "ok"
    /\ FilesWritten("git")
    /\ \E f \in files["git"] : f.content.kind = "wrapper"
    /\ status["github"] = "failed_initialize"


(***************************************************************************)
(* SpecRebuild: a registry builder run up to MaxBuilds times in succession *)
(* against the same servers, whose listings hold distinct names that are   *)
(* not names of index files.                                               *)
(***************************************************************************)
\* the servers that were launched and failed before their files were complete
Failing(sv) ==
    {s \in DOMAIN sv : sv[s].how \notin {"unknown", "ok"} /\ CommandOf(builder, s) \in hostCmds}

NextRebuild ==
    /\ \/ NextBuild
       \/ Rebuild /\ UNCHANGED <<bridgeVars, agentVars, wrapperVars, nameVars>>
    /\ Cardinality(Failing(served')) <= MaxFailing
    /\ \A s \in DOMAIN served' : served'[s].listing \notin OddListings

SpecRebuild == InitBuild /\ [][NextRebuild]_vars

\* the tool names of a listing
ListedNames(listing) == {listing[i] : i \in 1..Len(listing)}

\* nothing under the root predates the build: every directory is a configured server's
\* and every file in it was written for that server from the tools it listed
OnlyThisBuild ==
    /\ dirs \subseteq ConfiguredNames(builder)
    /\ \A d \in DirNames :
          /\ d \notin dirs => files[d] = {}
          /\ \A f \in files[d] :
                /\ f.content.server = d
                /\ ListedNames(f.content.names) \subseteq ListedNames(served[d].listing)

\* C11: a finished build leaves nothing of what the root held before it, and every
\* build after the first against the same servers leaves the registry of the first
\* build: the same directories, the same files with the same tool names and content.
C11_RebuildSameRegistry ==
    bphase = "finished"
        => /\ OnlyThisBuild
           /\ builds > 1 => [dirs |-> dirs, files |-> files] = firstBuild

\* a second build is over; a server was built with two tools and another one failed
\* while its files were being written
C11_Witness ==
    /\ bphase = "finished"
    /\ builds = 2
    /\ \E s \in dirs : status[s] = "ok" /\ Len(served[s].listing) = 2
    /\ \E s \in dirs : status[s] = "failed_write" /\ files[s] # {}

(***************************************************************************)
(* SpecAgent: the connections of a run.                                    *)
(***************************************************************************)
\* the run is over: its loop ended or an error left it
RunOver == pc \in {"done", "raised"}

\* C12: when a run is over, however it ended, no connection acquired at its startup is
\* still held, a connection whose handshake failed included.
C12_ConnectionsReleased == RunOver => live = {}

\* a run that held a working connection and one whose handshake had failed was ended by an
\* error of the chat endpoint
C12_Witness ==
    /\ pc = "raised"
    /\ raised = "chat"
    /\ \E s \in DOMAIN startup : startup[s] = "handshake_failed"
    /\ \E s \in DOMAIN startup : startup[s] = "ok"
    /\ live = {}

\* the session table of the driver
SessionTable == IF mode = "code" THEN DOMAIN ACTIVE_SESSIONS ELSE sessions

\* C13: in every driver, startup skips the servers that fail and enters the main loop:
\* it raises nothing, and the session table holds exactly the servers that connected.
C13_StartupSkipsFailedServers ==
    pc # "startup"
        => /\ raised # "startup"
           /\ SessionTable = {s \in DOMAIN startup : startup[s] = "ok"}

\* C15: in a code-mode run, before and after the exit stack is closed, every entry of
\* ACTIVE_SESSIONS is a session whose handshake succeeded and that is still held.
C15_TableHoldsOpenSessions ==
    mode = "code" => \A s \in DOMAIN ACTIVE_SESSIONS : startup[s] = "ok" /\ s \in live

(***************************************************************************)
(* SpecAgent: the execution environment of code mode.                      *)
(***************************************************************************)
\* the snippet of the tool call about to be executed
NextSnippet == Head(pending).arguments.code

\* C14: a name bound by a run_python snippet that ran without error, on the synchronous
\* path or on the await path, is in persistent_globals from then on, where the code of
\* every later snippet of the run finds it.
C14_BoundNamesPersist ==
    [][/\ persistent_globals \subseteq persistent_globals'
       /\ (/\ pc = "dispatch"
           /\ ReachesExecute(mode, Head(pending))
           /\ NextSnippet.does = "bind"
           /\ pc' # "raised")
             => NextSnippet.name \in persistent_globals']_vars

(***************************************************************************)
(* SpecAgent: the conversation and the token counters.                     *)
(***************************************************************************)
\* the tool_call_ids of the tool-role messages appended in the current iteration, in order
RECURSIVE AnsweredIds(_)
AnsweredIds(msgs) ==
    IF msgs = <<>> THEN <<>>
    ELSE (IF Head(msgs).role = "tool" THEN <<Head(msgs).tool_call_id>> ELSE <<>>)
         \o AnsweredIds(Tail(msgs))

\* the ids of the tool calls the current assistant message requested, in order
RequestedIds == [k \in 1..Len(lastMsg.tool_calls) |-> lastMsg.tool_calls[k].id]

\* C18: in every driver, when the next chat request is about to be sent or the run is
\* over, each tool call the last assistant message requested has exactly one tool-role
\* message with its id, in the order of the calls; and messages are only ever appended.
C18_EveryCallAnswered ==
    /\ pc \in {"request", "done", "raised"} => AnsweredIds(turnMessages) = RequestedIds
    /\ pc = "dispatch" =>
          AnsweredIds(turnMessages) = SubSeq(RequestedIds, 1, Len(RequestedIds) - Len(pending))

\* C19: every driver keeps token counters, and the summary it prints when its loop is
\* over reports as many turns as chat requests were issued and the sums of the
\* prompt_tokens and completion_tokens of the responses received.
C19_TokenTotalsReported ==
    pc = "done"
        => /\ report.printed
           /\ report.turns = chatRequests
           /\ report.input = chatRequests * Usage.prompt_tokens
           /\ report.output = chatRequests * Usage.completion_tokens

(***************************************************************************)
(* SpecLayout: the layout of a server's directory.                         *)
(***************************************************************************)
\* the capability files of a directory: descriptors (json) or wrappers (code)
CapabilityFiles(d) == {f \in files[d] : f.content.kind \in {"tool", "wrapper"}}
IndexFiles(d) == {f \in files[d] : f.content.kind = "index"}

\* the directory of d holds one capability file per tool of the listing and nothing else
\* of that kind
OneFilePerCapability(d, listing) ==
    /\ CapabilityFiles(d) = {ToolFile(builder, d, listing[i]) : i \in 1..Len(listing)}
    /\ Cardinality(CapabilityFiles(d)) = Len(listing)

\* the listing of server s succeeded: list_tools answered, whatever came of the writing
ListingSucceeded(s) == served[s].how \in {"ok", "failed_write"}

\* C17: after a build, the directory of every server whose capability listing succeeded
\* holds exactly one capability file per listed tool and exactly one index file, and the
\* index names the listed tools, each once, in the order of the listing.
C17_OneFilePerCapabilityAndIndex ==
    bphase = "finished"
        => \A s \in ConfiguredNames(builder) :
              ListingSucceeded(s)
                  => /\ s \in dirs
                     /\ OneFilePerCapability(s, served[s].listing)
                     /\ IndexFiles(s) =
                           {File(FileName(IF builder = "code" THEN <<"INDEX">> ELSE <<"index">>,
                                          IF builder = "code" THEN ".md" ELSE ".json"),
                                 "index", s, served[s].listing)}
                     /\ Cardinality(ListedNames(served[s].listing)) = Len(served[s].listing)

\* C20: after any build, every directory under the root has an index file, and the index
\* names exactly the capability files of the directory.
C20_EveryDirectoryIndexed ==
    bphase = "finished"
        => \A d \in dirs :
              \E f \in IndexFiles(d) :
                  {g.name.stem : g \in CapabilityFiles(d)} = ListedNames(f.content.names)

(***************************************************************************)
(* SpecWrapper: a wrapper is generated for a capability, imported and      *)
(* called.                                                                 *)
(***************************************************************************)
InitWrapper ==
    /\ WrapperInit
    /\ ACTIVE_SESSIONS \in SessionTables
    /\ bpc = "idle"
    /\ request = NoRequest
    /\ reply \in AgentReplies
    /\ ret = NoRet
    /\ forwarded = <<>>
    /\ AgentOff
    /\ BuildOff
    /\ NamesOff

NextWrapper ==
    \/ GenerateWrapper /\ UNCHANGED <<agentVars, buildVars, nameVars>>
    \/ ImportAndCall /\ UNCHANGED <<agentVars, buildVars, nameVars>>

SpecWrapper == InitWrapper /\ [][NextWrapper]_vars

\* C16: for every capability (s, t) the generated file defines one function named t, and
\* calling it with kwargs k makes exactly the call call_mcp_tool(s, t, k) and returns what
\* that call returns.
C16_WrapperDelegates ==
    wpc = "called"
        => /\ LoadModule(wfile).ok
           /\ LoadModule(wfile).def = wcap.name
           /\ ret = call_mcp_tool(ACTIVE_SESSIONS, wcap.server, wcap.name, wcap.kwargs, reply)
           /\ forwarded = ret.calls

(***************************************************************************)
(* SpecBridgeFile: the code builder writes the bridge file, the file is     *)
(* imported and called, and the repository's call_mcp_tool is called with  *)
(* the same request.                                                       *)
(***************************************************************************)
InitBridgeFile ==
    /\ BridgeInit
    /\ AgentOff
    /\ NamesOff
    \* build_code_registry on a fresh checkout, with both launchers installed
    /\ BuildInit
    /\ builder = "code"
    /\ hostCmds = Commands
    /\ ~rootExists
    /\ wpc = "import"
    /\ wcap = NoCapability
    /\ wfile = <<>>
    /\ bridge_file = <<>>
    /\ gen_ret = NoRet

NextBridgeFile ==
    \/ BuildStart /\ UNCHANGED <<bridgeVars, agentVars, wpc, wcap, wfile, gen_ret, nameVars>>
    \/ CallGeneratedBridge /\ UNCHANGED <<agentVars, buildVars, nameVars>>
    \/ CallMcpTool /\ UNCHANGED <<agentVars, buildVars, wrapperVars, nameVars>>

SpecBridgeFile == InitBridgeFile /\ [][NextBridgeFile]_vars

\* C21: for every session table, server, tool, argument mapping and tool response, the
\* call_mcp_tool of the written bridge file and the repository's call_mcp_tool return the
\* same value and make the same session calls.
C21_WrittenBridgeAgrees ==
    wpc = "called" /\ bpc = "returned"
        => /\ gen_ret.out = ret.out
           /\ gen_ret.kind = ret.kind
           /\ gen_ret.val = ret.val
           /\ gen_ret.calls = ret.calls

(***************************************************************************)
(* SpecNames: the tools of the servers are offered, the model asks for     *)
(* one of them and the driver dispatches the call.                         *)
(***************************************************************************)
InitNames == NamesInit /\ BridgeOff /\ AgentOff /\ BuildOff /\ WrapperOff

NextNames ==
    \/ OfferTools /\ UNCHANGED <<bridgeVars, agentVars, buildVars, wrapperVars>>
    \/ RequestTool /\ UNCHANGED <<bridgeVars, agentVars, buildVars, wrapperVars>>
    \/ DispatchTool /\ UNCHANGED <<bridgeVars, agentVars, buildVars, wrapperVars>>

SpecNames == InitNames /\ [][NextNames]_vars

\* C22: a tool call requested under the offered name of a capability (s, t) is sent to
\* the session of s with tool name exactly t, in traditional and in discovery mode, for
\* every tool name, and no capability is shadowed by another one with the same name.
C22_OfferedNameInverts ==
    npc = "dispatched"
        => dispatched = [server |-> offered[wanted].server,
                         tool |-> offered[wanted].tool_name]

(***************************************************************************)
(* The concurrent fetches of get_tools.build_registry.                     *)
(***************************************************************************)
\* what the fetch of server s leaves in its directory when it runs alone, the server
\* behaving as b
AloneContent(s, b) == Saved({}, "json", s, b)

\* the fetches that took a step
Stepped == {s \in ConfiguredNames(builder) : status'[s] # status[s]}

\* a step of the fetches touches only the directories of the fetches that stepped
OwnDirectoryOnly ==
    (builder = "json" /\ bphase = "servers" /\ bphase' = "servers")
        => \A d \in DirNames :
               (files'[d] # files[d] \/ (d \in dirs') # (d \in dirs)) => d \in Stepped

\* C23: the fetches of get_tools.build_registry interleave in any order and any of them
\* may fail; each step touches only the directory of its own server, the finished
\* registry holds for each server what its fetch leaves when it runs alone, and the
\* temporary database is there until every fetch is over.
C23_FetchesIndependent ==
    /\ [](builder = "json" /\ bphase = "finished"
            => /\ dirs = ConfiguredNames("json")
               /\ \A s \in ConfiguredNames("json") : files[s] = AloneContent(s, served[s]))
    /\ [](builder = "json" /\ bphase # "start" /\ ~dbExists
            => \A s \in ConfiguredNames("json") : status[s] \in Terminal)
    /\ [][OwnDirectoryOnly]_vars

\* a finished json build where one fetch wrote two tools and its index and another one
\* failed after its first tool file
C23_Witness ==
    /\ builder = "json"
    /\ bphase = "finished"
    /\ ~dbExists
    /\ \E s, t \in ConfiguredNames("json") :
          /\ status[s] = "ok"
          /\ Len(served[s].listing) = 2
          /\ status[t] = "failed_write"
          /\ served[t].written = 1
          /\ files[t] # {}


====
